---- MODULE Spec2Model ----
(***************************************************************************)
(* A model of the Windows-MCP desktop scanner: the accessibility-tree walk *)
(* and its classification (tree/service.py), the parallel per-application  *)
(* scan with retries, the 2-second snapshot cache of Tree.get_state, the   *)
(* label tables of TreeState (tree/views.py) and the label-addressed tools *)
(* of the server (server.py).                                              *)
(*                                                                         *)
(* Strings the code manipulates (names) are sequences of one-character     *)
(* strings, so that strip() and the `or` fallbacks are computed.           *)
(***************************************************************************)
EXTENDS Integers, Sequences, FiniteSets, TLC

(***************************************************************************)
(* Program constants.                                                      *)
(***************************************************************************)
\* tree/config.py: THREAD_MAX_RETRIES = 3
THREAD_MAX_RETRIES == 3
\* tree/config.py: MIN_ELEMENT_AREA = 10
MIN_ELEMENT_AREA == 10
\* tree/service.py: `if depth > 20`
MaxDepth == 20
\* tree/service.py: `(current_time - self._last_scan_time) < 2.0`, in seconds
CacheWindow == 2
\* desktop/service.py: `area > 10` in is_app_visible
MinAppArea == 10
\* tree/views.py: `rows[:100]` in informative_elements_to_string
InformativeRowLimit == 100

INTERACTIVE_CONTROL_TYPE_NAMES_NoImage ==
    { "ButtonControl", "ListItemControl", "MenuItemControl", "DocumentControl",
      "EditControl", "CheckBoxControl", "RadioButtonControl", "ComboBoxControl",
      "HyperlinkControl", "SplitButtonControl", "TabItemControl",
      "TreeItemControl", "DataItemControl", "HeaderItemControl", "TextBoxControl",
      "SpinnerControl", "ScrollBarControl" }
INTERACTIVE_CONTROL_TYPE_NAMES ==
    { "ButtonControl", "ListItemControl", "MenuItemControl", "DocumentControl",
      "EditControl", "CheckBoxControl", "RadioButtonControl", "ComboBoxControl",
      "HyperlinkControl", "SplitButtonControl", "TabItemControl",
      "TreeItemControl", "DataItemControl", "HeaderItemControl", "TextBoxControl",
      "SpinnerControl", "ScrollBarControl", "ImageControl" }

INFORMATIVE_CONTROL_TYPE_NAMES ==
    { "TextControl", "ImageControl", "GroupControl", "PaneControl" }

EXCLUDED_APPS ==
    { "Progman", "Shell_TrayWnd", "Shell_SecondaryTrayWnd",
      "Microsoft.UI.Content.PopupWindowSiteBridge",
      "Windows.UI.Core.CoreWindow", "IME", "MSCTFIME UI" }

AVOIDED_APPS == { "AgentUI", "SystemSettings", "ShellExperienceHost" }

(***************************************************************************)
(* Strings.                                                                *)
(***************************************************************************)
Whitespace == { " ", "\t", "\n" }

RECURSIVE LStrip(_)
LStrip(s) ==
    IF s = <<>> THEN <<>>
    ELSE IF Head(s) \in Whitespace THEN LStrip(Tail(s)) ELSE s

RECURSIVE RStrip(_)
RStrip(s) ==
    IF s = <<>> THEN <<>>
    ELSE IF s[Len(s)] \in Whitespace THEN RStrip(SubSeq(s, 1, Len(s) - 1)) ELSE s

\* str.strip()
Strip(s) == RStrip(LStrip(s))

\* Python's `a or b` on strings: a when it is non-empty, else b
StrOr(a, b) == IF a /= <<>> THEN a ELSE b

S_Unknown == << "U", "n", "k", "n", "o", "w", "n" >>
S_Scrollable == << "S", "c", "r", "o", "l", "l", "a", "b", "l", "e" >>
S_Text == << "T", "e", "x", "t" >>
S_Empty == << >>

(***************************************************************************)
(* Geometry: uiautomation's Rect as read through BoundingRectangle.        *)
(***************************************************************************)
Rect(l, t, r, b) == [left |-> l, top |-> t, right |-> r, bottom |-> b]
width(box) == box.right - box.left
height(box) == box.bottom - box.top
isempty(box) == width(box) = 0 \/ height(box) = 0
xcenter(box) == box.left + (width(box) \div 2)
ycenter(box) == box.top + (height(box) \div 2)

\* BoundingBox(left=..., width=box.width(), height=box.height())
BoundingBox(box) ==
    [left |-> box.left, top |-> box.top, right |-> box.right, bottom |-> box.bottom,
     width |-> width(box), height |-> height(box)]

Center(box) == [x |-> xcenter(box), y |-> ycenter(box)]

(***************************************************************************)
(* The accessibility bridge.  A node is the record of the answers the      *)
(* bridge gives for one control.  Properties the code reads more than once *)
(* (in a predicate, then in a later predicate or when the element is       *)
(* recorded) hold two answers, the earlier and the later reading, because  *)
(* the desktop may change between the reads.  The parameter k of a         *)
(* predicate says which reading it gets.                                   *)
(*   fail = "predicates"  : every bridge read inside the guarded           *)
(*                          predicates raises (each has try/except)        *)
(*   fail = "record"      : an unguarded read made while recording the     *)
(*                          element raises (lines 196-217, 221-245,        *)
(*                          249-253)                                       *)
(*   fail = "GetChildren" : enumerating the children raises                *)
(***************************************************************************)
NoScroll == [ok |-> FALSE, V |-> FALSE, H |-> FALSE, VP |-> 0, HP |-> 0]
ScrollV(p) == [ok |-> TRUE, V |-> TRUE, H |-> FALSE, VP |-> p, HP |-> 0]
ScrollH(p) == [ok |-> TRUE, V |-> FALSE, H |-> TRUE, VP |-> 0, HP |-> p]
\* a scroll pattern that is present but has no scrollable axis
ScrollNone == [ok |-> TRUE, V |-> FALSE, H |-> FALSE, VP |-> 0, HP |-> 0]

Node(ct, lct, names, scroll, boxes, enabled, offscreen, ce, fail, kids) ==
    [ControlTypeName |-> ct, LocalizedControlType |-> lct, Name |-> names,
     Scroll |-> scroll, BoundingRectangle |-> boxes, IsEnabled |-> enabled,
     IsOffscreen |-> offscreen, IsControlElement |-> ce, fail |-> fail,
     children |-> kids]

(***************************************************************************)
(* The classification predicates of Tree.                                  *)
(***************************************************************************)
_is_element_visible(node, k) ==
    IF node.fail = "predicates" THEN FALSE
    ELSE LET box == node.BoundingRectangle[k]
         IN  IF isempty(box) THEN FALSE
             ELSE LET area == width(box) * height(box)
                      is_offscreen == (~node.IsOffscreen)
                                      \/ node.ControlTypeName \in {"EditControl"}
                  IN  area > MIN_ELEMENT_AREA /\ is_offscreen /\ node.IsControlElement

_is_element_enabled(node, k) ==
    IF node.fail = "predicates" THEN FALSE ELSE node.IsEnabled[k]

_is_element_interactive(node) ==
    IF node.fail = "predicates" THEN FALSE
    ELSE IF node.ControlTypeName \in INTERACTIVE_CONTROL_TYPE_NAMES
         THEN _is_element_visible(node, 1) /\ _is_element_enabled(node, 1)
         ELSE FALSE

\* When the control type is in both allow-lists the interactive predicate has
\* already read the geometry and the enabled flag: this is the later reading.
_is_element_text(node) ==
    IF node.fail = "predicates" THEN FALSE
    ELSE IF node.ControlTypeName \in INFORMATIVE_CONTROL_TYPE_NAMES
         THEN LET k == IF node.ControlTypeName \in INTERACTIVE_CONTROL_TYPE_NAMES
                       THEN 2 ELSE 1
              IN  /\ _is_element_visible(node, k)
                  /\ _is_element_enabled(node, k)
                  /\ Strip(node.Name[1]) /= <<>>
         ELSE FALSE

_is_element_scrollable(node) ==
    IF node.fail = "predicates" \/ ~node.Scroll.ok THEN FALSE
    ELSE node.Scroll.V \/ node.Scroll.H

(***************************************************************************)
(* The element records.  `app` and `path` are the identity of the visit    *)
(* that produced the element (the window handle and the child indices from *)
(* the window's root); the Python objects carry it as object identity.     *)
(***************************************************************************)
ScrollElementNode(ctx, node, path) ==
    LET box == node.BoundingRectangle[1]
    IN  [app |-> ctx.app, path |-> path,
         name |-> StrOr(StrOr(Strip(node.Name[1]), node.LocalizedControlType),
                        S_Scrollable),
         app_name |-> ctx.app_name,
         control_type |-> StrOr(node.LocalizedControlType, S_Unknown),
         bounding_box |-> BoundingBox(box),
         center |-> Center(box),
         horizontal_scrollable |-> node.Scroll.H,
         horizontal_scroll_percent |-> IF node.Scroll.H THEN node.Scroll.HP ELSE 0,
         vertical_scrollable |-> node.Scroll.V,
         vertical_scroll_percent |-> IF node.Scroll.V THEN node.Scroll.VP ELSE 0]

TreeElementNode(ctx, node, path) ==
    LET box == node.BoundingRectangle[2]
    IN  [app |-> ctx.app, path |-> path,
         name |-> StrOr(StrOr(Strip(node.Name[1]), node.LocalizedControlType),
                        S_Empty),
         control_type |-> StrOr(node.LocalizedControlType, S_Unknown),
         bounding_box |-> BoundingBox(box),
         center |-> Center(box),
         app_name |-> ctx.app_name,
         is_enabled |-> node.IsEnabled[2]]

TextElementNode(ctx, node, path) ==
    [app |-> ctx.app, path |-> path,
     name |-> StrOr(Strip(node.Name[2]), S_Empty),
     app_name |-> ctx.app_name,
     control_type |-> StrOr(node.LocalizedControlType, S_Text)]

NoNodes == [interactive_nodes |-> <<>>, informative_nodes |-> <<>>,
            scrollable_nodes |-> <<>>]

(***************************************************************************)
(* One visit of tree_traversal, up to the recursion into the children: the *)
(* if / elif / elif chain of lines 194-253.  The result is the three lists *)
(* after the visit and whether the visit raised.                           *)
(***************************************************************************)
VisitNoElif(ctx, node, path, acc) ==
    LET s == _is_element_scrollable(node)
        i == _is_element_interactive(node)
        t == _is_element_text(node)
    IN  IF (s \/ i \/ t) /\ node.fail = "record"
        THEN [acc |-> acc, raised |-> TRUE]
        ELSE [acc |->
                [scrollable_nodes |->
                    IF s /\ ~isempty(node.BoundingRectangle[1])
                    THEN Append(acc.scrollable_nodes, ScrollElementNode(ctx, node, path))
                    ELSE acc.scrollable_nodes,
                 interactive_nodes |->
                    IF i /\ ~isempty(node.BoundingRectangle[2])
                    THEN Append(acc.interactive_nodes, TreeElementNode(ctx, node, path))
                    ELSE acc.interactive_nodes,
                 informative_nodes |->
                    IF t
                    THEN Append(acc.informative_nodes, TextElementNode(ctx, node, path))
                    ELSE acc.informative_nodes],
              raised |-> FALSE]

VisitInteractiveFirst(ctx, node, path, acc) ==
    IF _is_element_interactive(node)
    THEN IF node.fail = "record" THEN [acc |-> acc, raised |-> TRUE]
         ELSE IF ~isempty(node.BoundingRectangle[2])
              THEN [acc |-> [acc EXCEPT !.interactive_nodes =
                                Append(@, TreeElementNode(ctx, node, path))],
                    raised |-> FALSE]
              ELSE [acc |-> acc, raised |-> FALSE]
    ELSE IF _is_element_scrollable(node)
    THEN IF node.fail = "record" THEN [acc |-> acc, raised |-> TRUE]
         ELSE IF ~isempty(node.BoundingRectangle[1])
              THEN [acc |-> [acc EXCEPT !.scrollable_nodes =
                                Append(@, ScrollElementNode(ctx, node, path))],
                    raised |-> FALSE]
              ELSE [acc |-> acc, raised |-> FALSE]
    ELSE IF _is_element_text(node)
    THEN IF node.fail = "record" THEN [acc |-> acc, raised |-> TRUE]
         ELSE [acc |-> [acc EXCEPT !.informative_nodes =
                           Append(@, TextElementNode(ctx, node, path))],
               raised |-> FALSE]
    ELSE [acc |-> acc, raised |-> FALSE]

Visit(ctx, node, path, acc) ==
    IF _is_element_scrollable(node)
    THEN IF node.fail = "record" THEN [acc |-> acc, raised |-> TRUE]
         ELSE IF ~isempty(node.BoundingRectangle[1])
              THEN [acc |-> [acc EXCEPT !.scrollable_nodes =
                                Append(@, ScrollElementNode(ctx, node, path))],
                    raised |-> FALSE]
              ELSE [acc |-> acc, raised |-> FALSE]
    ELSE IF _is_element_interactive(node)
    THEN IF node.fail = "record" THEN [acc |-> acc, raised |-> TRUE]
         ELSE IF ~isempty(node.BoundingRectangle[2])
              THEN [acc |-> [acc EXCEPT !.interactive_nodes =
                                Append(@, TreeElementNode(ctx, node, path))],
                    raised |-> FALSE]
              ELSE [acc |-> acc, raised |-> FALSE]
    ELSE IF _is_element_text(node)
    THEN IF node.fail = "record" THEN [acc |-> acc, raised |-> TRUE]
         ELSE [acc |-> [acc EXCEPT !.informative_nodes =
                           Append(@, TextElementNode(ctx, node, path))],
               raised |-> FALSE]
    ELSE [acc |-> acc, raised |-> FALSE]

(***************************************************************************)
(* tree_traversal: the depth-capped pre-order walk.  An exception raised   *)
(* by the visit of a child is caught by the bare `except` around the       *)
(* parent's loop over its children, which ends that loop.                  *)
(***************************************************************************)
\* line 191
DepthExceededLate(depth) == depth > MaxDepth + 1
DepthExceeded(depth) == depth > MaxDepth

\* lines 259-260: the failure of GetChildren() is caught in the node's own
\* frame, which then returns normally
GetChildrenPropagates(v) == [acc |-> v.acc, raised |-> TRUE]
GetChildrenRaised(v) == [acc |-> v.acc, raised |-> FALSE]

RECURSIVE tree_traversal(_, _, _, _, _)
RECURSIVE walk_children(_, _, _, _, _, _)

tree_traversal(ctx, n, path, depth, acc) ==
    IF DepthExceeded(depth) THEN [acc |-> acc, raised |-> FALSE]
    ELSE LET node == ctx.tree[n]
             v == Visit(ctx, node, path, acc)
         IN  IF v.raised THEN v
             ELSE IF node.fail = "GetChildren" THEN GetChildrenRaised(v)
             ELSE walk_children(ctx, node.children, path, 1, depth, v.acc)

\* the children from the last to the first
RECURSIVE walk_childrenReversed(_, _, _, _, _, _)
walk_childrenReversed(ctx, kids, path, i, depth, acc) ==
    IF i > Len(kids) THEN [acc |-> acc, raised |-> FALSE]
    ELSE LET j == Len(kids) - i + 1
             r == tree_traversal(ctx, kids[j], Append(path, j), depth + 1, acc)
         IN  IF r.raised THEN [acc |-> r.acc, raised |-> FALSE]
             ELSE walk_childrenReversed(ctx, kids, path, i + 1, depth, r.acc)

walk_children(ctx, kids, path, i, depth, acc) ==
    IF i > Len(kids) THEN [acc |-> acc, raised |-> FALSE]
    ELSE LET r == tree_traversal(ctx, kids[i], Append(path, i), depth + 1, acc)
         IN  IF r.raised THEN [acc |-> r.acc, raised |-> FALSE]
             ELSE walk_children(ctx, kids, path, i + 1, depth, r.acc)

\* class_name_map.get(node.ClassName, app_name) of _get_nodes
class_name_map(ClassName, app_name) ==
    CASE ClassName = "Progman" -> << "D", "e", "s", "k", "t", "o", "p" >>
      [] ClassName \in {"Shell_TrayWnd", "Shell_SecondaryTrayWnd"} ->
            << "T", "a", "s", "k", "b", "a", "r" >>
      [] ClassName = "Microsoft.UI.Content.PopupWindowSiteBridge" ->
            << "C", "o", "n", "t", "e", "x", "t", " ", "M", "e", "n", "u" >>
      [] OTHER -> app_name

(***************************************************************************)
(* _get_nodes: one traversal attempt on one window.  `win` is the window   *)
(* (handle, ClassName), `tree` the accessibility tree the bridge serves    *)
(* for it during this attempt; node 1 is the window's root control.        *)
(* tree.NameRaises: reading the window's Name (line 178) raises.           *)
(* The result is the three lists, or raised = TRUE when the attempt ends   *)
(* in an exception (the lists are then lost with the call's frame).        *)
(***************************************************************************)
_get_nodes(win, tree) ==
    IF tree.NameRaises THEN [raised |-> TRUE, nodes |-> NoNodes]
    ELSE LET app_name == class_name_map(win.ClassName,
                             StrOr(Strip(tree.nodes[1].Name[1]), S_Unknown))
             ctx == [app |-> win.handle, app_name |-> app_name, tree |-> tree.nodes]
             r == tree_traversal(ctx, 1, <<>>, 0, NoNodes)
         IN  IF r.raised THEN [raised |-> TRUE, nodes |-> NoNodes]
             ELSE [raised |-> FALSE, nodes |-> r.acc]

(***************************************************************************)
(* Bounds of the model.                                                    *)
(***************************************************************************)
\* the wall clock (seconds) runs from 0 to MaxClock
MaxClock == 2
\* at most MaxStates TreeState objects are created in one behaviour
MaxStates == 2
\* the tools are called with labels -1 .. MaxLabel
MaxLabel == 2
\* a window holds up to InformativeRowLimit + MaxExtraRows texts
MaxExtraRows == 2
\* the deepest control of a window is at depth MaxDepth + MaxExtraDepth
MaxExtraDepth == 2

(***************************************************************************)
(* The desktops the bridge can show.                                       *)
(***************************************************************************)
B_big == Rect(10, 10, 50, 30)
B_tiny == Rect(0, 0, 3, 3)
B_ten == Rect(0, 0, 2, 5)
B_flat == Rect(5, 5, 5, 9)

N_OK == << "O", "K" >>
N_hi == << " ", "h", "i", " " >>
N_blank == << " " >>
L_button == << "b", "u", "t", "t", "o", "n" >>
L_list == << "l", "i", "s", "t" >>
L_text == << "t", "e", "x", "t" >>

\* a control whose answers do not change during the walk
Stable(ct, lct, name, scroll, box, enabled, offscreen, fail, kids) ==
    Node(ct, lct, <<name, name>>, scroll, <<box, box>>, <<enabled, enabled>>,
         offscreen, TRUE, fail, kids)

Window(kids) ==
    Stable("WindowControl", <<>>, << "A", "p", "p" >>, NoScroll, B_big, TRUE, FALSE,
           "none", kids)
Button(name, box, kids) ==
    Stable("ButtonControl", L_button, name, NoScroll, box, TRUE, FALSE, "none", kids)
Text(name, kids) ==
    Stable("TextControl", L_text, name, NoScroll, B_big, TRUE, FALSE, "none", kids)

\* Example 1 of the specification: a button "OK" at (10,10)-(50,30) and a list
\* scrolled vertically to 40 %, holding one text
TreeExample ==
    [NameRaises |-> FALSE,
     nodes |-> << Window(<<2, 3>>),
                  Button(N_OK, B_big, <<>>),
                  Stable("ListControl", L_list, <<>>, ScrollV(40), B_big, TRUE, FALSE,
                         "none", <<4>>),
                  Text(N_hi, <<>>) >>]

\* a named pane holding a 3x3 scrollable list item, an image and an unnamed text
TreeSmall ==
    [NameRaises |-> FALSE,
     nodes |-> << Stable("PaneControl", <<>>, N_OK, NoScroll, B_big, TRUE, FALSE,
                         "none", <<2, 3, 4>>),
                  Stable("ListItemControl", <<>>, N_blank, ScrollH(0), B_tiny, TRUE,
                         FALSE, "none", <<>>),
                  Stable("ImageControl", <<>>, N_hi, NoScroll, B_big, TRUE, FALSE,
                         "none", <<>>),
                  Text(N_blank, <<>>) >>]

\* the window's root control is scrollable and recording it raises
TreeRootRaises ==
    [NameRaises |-> FALSE,
     nodes |-> << Stable("PaneControl", <<>>, N_OK, ScrollV(0), B_big, TRUE, FALSE,
                         "record", <<2>>),
                  Button(N_OK, B_big, <<>>) >>]

\* reading the window's name raises
TreeNameRaises ==
    [NameRaises |-> TRUE, nodes |-> << Window(<<>>) >>]

\* the second of three children raises while it is recorded; the first child's
\* own children cannot be enumerated
TreeChildRaises ==
    [NameRaises |-> FALSE,
     nodes |-> << Window(<<2, 3, 4>>),
                  Stable("ButtonControl", L_button, N_OK, NoScroll, B_big, TRUE, FALSE,
                         "GetChildren", <<5>>),
                  Stable("EditControl", <<>>, <<>>, NoScroll, B_big, TRUE, TRUE,
                         "record", <<>>),
                  Text(N_hi, <<>>),
                  Text(N_OK, <<>>) >>]

\* controls whose geometry, enabled flag and name change between the reads
TreeChanging ==
    [NameRaises |-> FALSE,
     nodes |-> << Window(<<2, 3, 4>>),
                  Node("ButtonControl", L_button, <<N_OK, N_OK>>, NoScroll,
                       <<B_big, B_tiny>>, <<TRUE, FALSE>>, FALSE, TRUE, "none", <<>>),
                  Node("TextControl", L_text, <<N_hi, N_blank>>, NoScroll,
                       <<B_big, B_big>>, <<TRUE, TRUE>>, FALSE, TRUE, "none", <<>>),
                  Node("ImageControl", <<>>, <<N_hi, N_hi>>, NoScroll,
                       <<B_ten, B_big>>, <<TRUE, TRUE>>, FALSE, TRUE, "none", <<>>) >>]

\* controls that satisfy more than one predicate: a named scrollable pane, a
\* scrollable document, a scrollable button with no area, a named group
TreeBoth ==
    [NameRaises |-> FALSE,
     nodes |-> << Stable("PaneControl", <<>>, N_OK, ScrollV(0), B_big, TRUE, FALSE,
                         "none", <<2, 3, 4>>),
                  Stable("DocumentControl", <<>>, N_hi, ScrollH(50), B_big, FALSE, FALSE,
                         "none", <<>>),
                  Node("ButtonControl", L_button, <<N_OK, N_OK>>, ScrollV(0),
                       <<B_flat, B_big>>, <<TRUE, TRUE>>, FALSE, TRUE, "none", <<>>),
                  Stable("GroupControl", <<>>, N_hi, ScrollNone, B_big, TRUE, FALSE,
                         "none", <<5>>),
                  Stable("DocumentControl", <<>>, N_OK, ScrollV(10), B_big, TRUE, FALSE,
                         "none", <<>>) >>]

\* a window holding n texts, named t1, t2, ...
TreeWide(n) ==
    [NameRaises |-> FALSE,
     nodes |-> << Window([i \in 1..n |-> i + 1]) >>
               \o [i \in 1..n |-> Text(<< "t", ToString(i) >>, <<>>)]]

WideTrees == { TreeWide(n) : n \in 0..(InformativeRowLimit + MaxExtraRows) }

\* a chain of texts: the window's root at depth 0, then one text at each depth
\* 1 .. d, named by its depth
TreeDeep(d) ==
    [NameRaises |-> FALSE,
     nodes |-> << Window(<<2>>) >>
               \o [i \in 1..d |->
                     Text(<< "d", ToString(i) >>, IF i < d THEN << i + 2 >> ELSE <<>>)]]

\* a cycle: the button's only child is the window that holds it
TreeCyclic ==
    [NameRaises |-> FALSE,
     nodes |-> << Window(<<2>>), Button(N_OK, B_big, <<1>>) >>]

\* enumerating the children of a button inside a group fails; texts come
\* before it, after it, after its parent and below it
TreeNoChildren ==
    [NameRaises |-> FALSE,
     nodes |-> << Window(<<2, 3>>),
                  Stable("GroupControl", <<>>, N_OK, NoScroll, B_big, TRUE, FALSE,
                         "none", <<4, 5, 6>>),
                  Text(N_hi, <<>>),
                  Text(N_OK, <<>>),
                  Stable("ButtonControl", L_button, N_OK, NoScroll, B_big, TRUE, FALSE,
                         "GetChildren", <<7>>),
                  Text(N_hi, <<>>),
                  Text(N_OK, <<>>) >>]

NoTree == [NameRaises |-> FALSE, nodes |-> <<>>]

Trees == { TreeExample, TreeSmall, TreeRootRaises, TreeNameRaises, TreeChildRaises,
           TreeChanging, TreeBoth, TreeDeep(MaxDepth + MaxExtraDepth), TreeCyclic,
           TreeNoChildren }

\* a top-level window: its handle, class, status (desktop/views.py Status) and
\* bounding rectangle
Win(h, cls, status, box) ==
    [handle |-> h, ClassName |-> cls, Status |-> status, BoundingRectangle |-> box]

DesktopA ==
    << Win(1, "Progman", "Hidden", B_flat),
       Win(2, "AgentUI", "Normal", B_big),
       Win(3, "Notepad", "Minimized", B_big),
       Win(4, "Chrome_WidgetWin_1", "Maximized", B_big),
       Win(5, "Notepad", "Normal", B_big) >>
DesktopB ==
    << Win(5, "Notepad", "Normal", B_ten),
       Win(4, "Chrome_WidgetWin_1", "Normal", B_big) >>
DesktopC ==
    << Win(2, "SystemSettings", "Normal", B_big) >>

\* a taskbar with no area and an overlay after the first visible window
DesktopD ==
    << Win(4, "Chrome_WidgetWin_1", "Hidden", B_big),
       Win(1, "Shell_TrayWnd", "Minimized", B_flat),
       Win(2, "ShellExperienceHost", "Normal", B_big),
       Win(5, "Notepad", "Normal", B_big) >>

Desktops == { DesktopA, DesktopB, DesktopC, DesktopD }

(***************************************************************************)
(* The tables of TreeState (tree/views.py).  A table is the sequence of    *)
(* its data rows; the header and the joining into text are left out.  The  *)
(* informative table is its data rows and its closing note: << k >> for    *)
(* "... and k more informative elements", << >> when there is no note.     *)
(***************************************************************************)
S_Quotes == << "'", "'" >>

TreeElementNode_to_row(node, index) ==
    [label |-> index, app_name |-> node.app_name, control_type |-> node.control_type,
     name |-> StrOr(node.name, S_Quotes), center |-> node.center]

TextElementNode_to_row(node) ==
    [app_name |-> node.app_name, control_type |-> node.control_type,
     name |-> StrOr(node.name, S_Quotes)]

ScrollElementNode_to_row(node, index, base_index) ==
    [label |-> base_index + index, app_name |-> node.app_name,
     control_type |-> node.control_type, name |-> StrOr(node.name, S_Quotes),
     center |-> node.center]

\* enumerate() counts from 0
interactive_elements_to_string(state) ==
    [i \in 1..Len(state.interactive_nodes) |->
        TreeElementNode_to_row(state.interactive_nodes[i], i - 1)]

\* Python's rows[:n]
PySlice(rows, n) == SubSeq(rows, 1, IF Len(rows) < n THEN Len(rows) ELSE n)

informative_elements_to_stringAll(state) ==
    [rows |-> [i \in 1..Len(state.informative_nodes) |->
                  TextElementNode_to_row(state.informative_nodes[i])],
     note |-> <<>>]
informative_elements_to_string(state) ==
    IF state.informative_nodes = <<>> THEN [rows |-> <<>>, note |-> <<>>]
    ELSE LET rows == [i \in 1..Len(state.informative_nodes) |->
                         TextElementNode_to_row(state.informative_nodes[i])]
         IN  [rows |-> PySlice(rows, InformativeRowLimit),
              note |-> IF Len(rows) > InformativeRowLimit
                       THEN << Len(rows) - InformativeRowLimit >> ELSE <<>>]

\* line 199
base_index_zero(state) == 0
base_index(state) == Len(state.interactive_nodes)

scrollable_elements_to_string(state) ==
    [i \in 1..Len(state.scrollable_nodes) |->
        ScrollElementNode_to_row(state.scrollable_nodes[i], i - 1, base_index(state))]

(***************************************************************************)
(* State.                                                                  *)
(***************************************************************************)
VARIABLES
    UIAUTOMATION_AVAILABLE, \* tree/service.py: set once, when the module is imported
    clock,                  \* time.time(), in seconds
    _cached_state,          \* Tree._cached_state (None: the attribute is not set)
    _last_scan_time,        \* Tree._last_scan_time
    cached_tree_state,      \* server.py: the global the label tools read
    nstates,                \* number of TreeState objects created so far
    pc,                     \* "idle", or "scan" while get_state waits for its futures
    call,                   \* the get_state call in progress
    windows,                \* _get_appwise_nodes: node.GetChildren() of the root
    apps,                   \* _get_appwise_nodes: the selected windows
    retry_counts,           \* _get_appwise_nodes: handle -> failures seen
    future_to_app,          \* _get_appwise_nodes: the futures not yet popped
    batch,                  \* the futures as_completed is iterating over
    hung,                   \* the futures whose traversal call will never return
    nodes,                  \* _get_appwise_nodes: the three aggregated lists
    submitted,              \* handle -> traversal tasks submitted in this scan
    outcome,                \* handle -> what became of the window in this scan:
                            \*   pending, dropped, or ok with the lists its
                            \*   traversal returned and the tree it walked
    ret,                    \* the last value get_state returned, and how
    system_info,            \* server.py: the text tool_get_desktop_state returned
    thread2,                \* a second thread's get_state call on the same Tree
    lastTool                \* the last label tool call and what it did

vars == << UIAUTOMATION_AVAILABLE, clock, _cached_state, _last_scan_time,
           cached_tree_state, nstates, pc, call, windows, apps, retry_counts,
           future_to_app, batch, hung, nodes, submitted, outcome, ret, system_info,
           thread2, lastTool >>

scanVars == << windows, apps, retry_counts, future_to_app, batch, hung, nodes,
              submitted, outcome >>

\* TreeState(...): a new object, the id-th created
TreeState(id, lists) ==
    [id |-> id,
     interactive_nodes |-> lists.interactive_nodes,
     informative_nodes |-> lists.informative_nodes,
     scrollable_nodes |-> lists.scrollable_nodes]

\* Python's None
None == TreeState(0, NoNodes)
IsNone(state) == state.id = 0

Content(state) ==
    << state.interactive_nodes, state.informative_nodes, state.scrollable_nodes >>

NoCall == [force |-> FALSE, tool |-> FALSE, current_time |-> 0, store |-> FALSE]
NoRet == [state |-> None, force |-> FALSE, tool |-> FALSE, current_time |-> 0,
          returned |-> 0, hit |-> FALSE, scanned |-> FALSE, raised |-> FALSE,
          flip |-> FALSE]
NoThread == [pc |-> "idle", call |-> NoCall, ret |-> None.id]
NoInfo == [state |-> 0, interactive |-> <<>>,
           informative |-> [rows |-> <<>>, note |-> <<>>], scrollable |-> <<>>,
           summary |-> << 0, 0, 0 >>]
NoTool == [op |-> "none", label |-> 0, at |-> 0, result |-> "none", target |-> None.id,
           element |-> <<>>, clicked |-> FALSE, typed |-> FALSE]

Init ==
    /\ UIAUTOMATION_AVAILABLE \in BOOLEAN
    \* time.time() counts seconds since 1970: it starts beyond the cache window
    /\ clock = CacheWindow
    /\ _cached_state = None
    /\ _last_scan_time = 0
    /\ cached_tree_state = None
    /\ nstates = 0
    /\ pc = "idle"
    /\ call = NoCall
    /\ windows = <<>>
    /\ apps = <<>>
    /\ retry_counts = <<>>
    /\ future_to_app = {}
    /\ batch = {}
    /\ hung = {}
    /\ nodes = NoNodes
    /\ submitted = <<>>
    /\ outcome = <<>>
    /\ ret = NoRet
    /\ system_info = NoInfo
    /\ thread2 = NoThread
    /\ lastTool = NoTool

(***************************************************************************)
(* Desktop.is_app_visible and the selection loop of _get_appwise_nodes.    *)
(***************************************************************************)
_get_app_size(win) ==
    IF isempty(win.BoundingRectangle) THEN [width |-> 0, height |-> 0]
    ELSE [width |-> width(win.BoundingRectangle),
          height |-> height(win.BoundingRectangle)]

is_app_visible(win) ==
    LET is_not_minimized == win.Status /= "Minimized"
        size == _get_app_size(win)
        area == size.width * size.height
    IN  is_not_minimized /\ area > MinAppArea

\* every visible window takes a slot
RECURSIVE select_appsAllVisible(_, _, _, _)
select_appsAllVisible(ws, i, selected, found_foreground_app) ==
    IF i > Len(ws) THEN selected
    ELSE IF ws[i].ClassName \in EXCLUDED_APPS
              \/ (ws[i].ClassName \notin AVOIDED_APPS /\ is_app_visible(ws[i]))
         THEN select_appsAllVisible(ws, i + 1, Append(selected, ws[i]), FALSE)
         ELSE select_appsAllVisible(ws, i + 1, selected, FALSE)

RECURSIVE select_apps(_, _, _, _)
select_apps(ws, i, selected, found_foreground_app) ==
    IF i > Len(ws) THEN selected
    ELSE LET app == ws[i]
         IN  IF app.ClassName \in EXCLUDED_APPS
             THEN select_apps(ws, i + 1, Append(selected, app),
                              found_foreground_app)
             ELSE IF app.ClassName \notin AVOIDED_APPS /\ is_app_visible(app)
             THEN IF ~found_foreground_app
                  THEN select_apps(ws, i + 1, Append(selected, app), TRUE)
                  ELSE select_apps(ws, i + 1, selected, found_foreground_app)
             ELSE select_apps(ws, i + 1, selected, found_foreground_app)

Handles(ws) == { ws[i].handle : i \in 1..Len(ws) }
WinOf(ws, h) == CHOOSE w \in { ws[i] : i \in 1..Len(ws) } : w.handle = h

(***************************************************************************)
(* The end of a get_state call: the value goes back to the caller, and     *)
(* tool_get_desktop_state stores it in the server's global (line 615) and  *)
(* builds its answer from the three tables and the counts (lines 633-657,  *)
(* include_informative and include_scrollable left at True).               *)
(***************************************************************************)
build_response(state) ==
    [state |-> state.id,
     interactive |-> interactive_elements_to_string(state),
     informative |-> informative_elements_to_string(state),
     scrollable |-> scrollable_elements_to_string(state),
     summary |-> << Len(state.interactive_nodes), Len(state.informative_nodes),
                    Len(state.scrollable_nodes) >>]

Return(c, state, hit, scanned, raised) ==
    /\ ret' = [state |-> state, force |-> c.force, tool |-> c.tool,
               current_time |-> c.current_time, returned |-> clock, hit |-> hit,
               scanned |-> scanned, raised |-> raised, flip |-> ~ret.flip]
    /\ cached_tree_state' = IF c.tool THEN state ELSE cached_tree_state
    /\ system_info' = IF c.tool THEN build_response(state) ELSE system_info
    /\ pc' = "idle"
    /\ call' = NoCall

\* the Tree a call is made on: the one tool_get_desktop_state has just built
\* (server.py line 611, Tree.__init__ lines 54-55), or the Tree that exists
TreeOfShared(tool) == [cache |-> _cached_state, time |-> _last_scan_time]
TreeOf(tool) ==
    IF tool THEN [cache |-> None, time |-> 0]
    ELSE [cache |-> _cached_state, time |-> _last_scan_time]

TreeCache(tool) == TreeOf(tool).cache
TreeScanTime(tool) == TreeOf(tool).time

\* the new elements are added to the snapshot that is in the slot
FinishScanMerge(c, lists) ==
    LET old == TreeCache(c.tool)
        state == IF IsNone(old) THEN TreeState(nstates + 1, lists)
                 ELSE TreeState(old.id,
                        [interactive_nodes |->
                            old.interactive_nodes \o lists.interactive_nodes,
                         informative_nodes |->
                            old.informative_nodes \o lists.informative_nodes,
                         scrollable_nodes |->
                            old.scrollable_nodes \o lists.scrollable_nodes])
    IN  /\ nstates' = nstates + 1
        /\ _cached_state' = state
        /\ _last_scan_time' = c.current_time
        /\ Return(c, state, FALSE, TRUE, FALSE)

\* the timestamp is read when the scan has returned
FinishScanStampsEnd(c, lists) ==
    LET state == TreeState(nstates + 1, lists)
    IN  /\ nstates' = nstates + 1
        /\ _cached_state' = state
        /\ _last_scan_time' = clock
        /\ Return(c, state, FALSE, TRUE, FALSE)

\* lines 80-90: _scan_tree has returned the lists; publish and return them
FinishScan(c, lists) ==
    LET state == TreeState(nstates + 1, lists)
    IN  /\ nstates' = nstates + 1
        /\ IF c.store
           THEN /\ _cached_state' = state
                /\ _last_scan_time' = c.current_time
           ELSE \* line 77: the result of the fallback scan is not stored
                /\ _cached_state' = TreeCache(c.tool)
                /\ _last_scan_time' = TreeScanTime(c.tool)
        /\ Return(c, state, FALSE, TRUE, FALSE)

(***************************************************************************)
(* Time passes.                                                            *)
(***************************************************************************)
Tick ==
    /\ clock < CacheWindow + MaxClock
    /\ clock' = clock + 1
    /\ UNCHANGED << UIAUTOMATION_AVAILABLE, thread2, _cached_state, _last_scan_time,
                    cached_tree_state, nstates, pc, call, scanVars, ret, system_info,
                    lastTool >>

(***************************************************************************)
(* Tree.get_state(force_refresh).  tool = TRUE is the call made by         *)
(* tool_get_desktop_state, on a Tree it has just constructed (lines        *)
(* 611-614, force_refresh left at False); tool = FALSE is a call on the    *)
(* Tree that exists.                                                       *)
(***************************************************************************)
\* line 75
CacheFreshNarrow(force_refresh, current_time, last_scan_time) ==
    (~force_refresh) /\ (current_time - last_scan_time) < CacheWindow - 1
CacheFreshForced(force_refresh, current_time, last_scan_time) ==
    (current_time - last_scan_time) < CacheWindow
CacheFresh(force_refresh, current_time, last_scan_time) ==
    (~force_refresh) /\ (current_time - last_scan_time) < CacheWindow

\* lines 66-68
GetStateUnavailableNone(force, tool) ==
    /\ pc = "idle"
    /\ ~UIAUTOMATION_AVAILABLE
    /\ _cached_state' = TreeCache(tool)
    /\ _last_scan_time' = TreeScanTime(tool)
    /\ Return([force |-> force, tool |-> tool, current_time |-> clock,
               store |-> FALSE],
              None, FALSE, FALSE, FALSE)
    /\ UNCHANGED << UIAUTOMATION_AVAILABLE, thread2, clock, nstates, scanVars, lastTool >>
GetStateUnavailable(force, tool) ==
    /\ pc = "idle"
    /\ ~UIAUTOMATION_AVAILABLE
    /\ nstates < MaxStates
    /\ nstates' = nstates + 1
    /\ _cached_state' = TreeCache(tool)
    /\ _last_scan_time' = TreeScanTime(tool)
    /\ Return([force |-> force, tool |-> tool, current_time |-> clock,
               store |-> FALSE],
              TreeState(nstates + 1, NoNodes), FALSE, FALSE, FALSE)
    /\ UNCHANGED << UIAUTOMATION_AVAILABLE, thread2, clock, scanVars, lastTool >>

\* lines 75-77, the cached object is returned
GetStateHit(force, tool) ==
    /\ pc = "idle"
    /\ UIAUTOMATION_AVAILABLE
    /\ CacheFresh(force, clock, TreeScanTime(tool))
    /\ ~IsNone(TreeCache(tool))
    /\ _cached_state' = TreeCache(tool)
    /\ _last_scan_time' = TreeScanTime(tool)
    /\ Return([force |-> force, tool |-> tool, current_time |-> clock,
               store |-> FALSE],
              TreeCache(tool), TRUE, FALSE, FALSE)
    /\ UNCHANGED << UIAUTOMATION_AVAILABLE, thread2, clock, nstates, scanVars, lastTool >>

\* the empty TreeState of the except branch is put in the slot
GetStateScanRaisesStores(force, tool) ==
    /\ pc = "idle"
    /\ UIAUTOMATION_AVAILABLE
    /\ ~(CacheFresh(force, clock, TreeScanTime(tool)) /\ ~IsNone(TreeCache(tool)))
    /\ nstates < MaxStates
    /\ nstates' = nstates + 1
    /\ _cached_state' = TreeState(nstates + 1, NoNodes)
    /\ _last_scan_time' = clock
    /\ Return([force |-> force, tool |-> tool, current_time |-> clock,
               store |-> FALSE],
              TreeState(nstates + 1, NoNodes), FALSE, TRUE, TRUE)
    /\ UNCHANGED << UIAUTOMATION_AVAILABLE, thread2, clock, scanVars, lastTool >>

\* lines 77 and 80 with 98-99 and 124: _scan_tree starts and enumerating the
\* top-level windows raises; lines 92-94 return an empty TreeState
GetStateScanRaises(force, tool) ==
    /\ pc = "idle"
    /\ UIAUTOMATION_AVAILABLE
    /\ ~(CacheFresh(force, clock, TreeScanTime(tool)) /\ ~IsNone(TreeCache(tool)))
    /\ nstates < MaxStates
    /\ nstates' = nstates + 1
    /\ _cached_state' = TreeCache(tool)
    /\ _last_scan_time' = TreeScanTime(tool)
    /\ Return([force |-> force, tool |-> tool, current_time |-> clock,
               store |-> FALSE],
              TreeState(nstates + 1, NoNodes), FALSE, TRUE, TRUE)
    /\ UNCHANGED << UIAUTOMATION_AVAILABLE, thread2, clock, scanVars, lastTool >>

\* lines 77 and 80 with 98-140: _scan_tree starts, selects the windows of the
\* desktop and submits one traversal task for each
GetStateScan(force, tool, desktop) ==
    /\ pc = "idle"
    /\ UIAUTOMATION_AVAILABLE
    /\ ~(CacheFresh(force, clock, TreeScanTime(tool)) /\ ~IsNone(TreeCache(tool)))
    /\ nstates < MaxStates
    /\ LET c == [force |-> force, tool |-> tool, current_time |-> clock,
                 store |-> ~CacheFresh(force, clock, TreeScanTime(tool))]
           selected == select_apps(desktop, 1, <<>>, FALSE)
           futures == { [app |-> h, n |-> 1] : h \in Handles(selected) }
       IN  /\ windows' = desktop
           /\ apps' = selected
           /\ retry_counts' = [h \in Handles(selected) |-> 0]
           /\ submitted' = [h \in Handles(selected) |-> 1]
           /\ outcome' = [h \in Handles(selected) |->
                              [status |-> "pending", nodes |-> NoNodes,
                               tree |-> NoTree]]
           /\ future_to_app' = futures
           /\ batch' = futures
           /\ hung' = {}
           /\ nodes' = NoNodes
           /\ IF futures = {}
              THEN FinishScan(c, NoNodes)
              ELSE /\ pc' = "scan"
                   /\ call' = c
                   /\ _cached_state' = TreeCache(tool)
                   /\ _last_scan_time' = TreeScanTime(tool)
                   /\ UNCHANGED << nstates, ret, cached_tree_state, system_info >>
    /\ UNCHANGED << UIAUTOMATION_AVAILABLE, thread2, clock, lastTool >>

(***************************************************************************)
(* The loop of _get_appwise_nodes over the completed futures (lines        *)
(* 142-158).  One step is one future completing and being handled: the     *)
(* worker has run _get_nodes on the tree the bridge served during that     *)
(* attempt.  When the last future of as_completed's list has been handled  *)
(* the `while` looks at future_to_app again; when it is empty the scan     *)
(* returns through _scan_tree to get_state.                                *)
(***************************************************************************)
\* line 154
ShouldRetryAlways(count) == TRUE
ShouldRetry(count) == count < THREAD_MAX_RETRIES

\* lines 148-151
ExtendOverwrite(lists, result) == result
ExtendRetried(lists, result) ==
    LET again(seq) == IF seq /= <<>> /\ retry_counts[seq[1].app] > 0
                      THEN seq \o seq ELSE seq
    IN  [interactive_nodes |->
            lists.interactive_nodes \o again(result.interactive_nodes),
         informative_nodes |->
            lists.informative_nodes \o again(result.informative_nodes),
         scrollable_nodes |->
            lists.scrollable_nodes \o again(result.scrollable_nodes)]
ExtendTwice(lists, result) ==
    [interactive_nodes |-> lists.interactive_nodes \o result.interactive_nodes
                             \o result.interactive_nodes,
     informative_nodes |-> lists.informative_nodes \o result.informative_nodes,
     scrollable_nodes |-> lists.scrollable_nodes \o result.scrollable_nodes]
Extend(lists, result) ==
    [interactive_nodes |-> lists.interactive_nodes \o result.interactive_nodes,
     informative_nodes |-> lists.informative_nodes \o result.informative_nodes,
     scrollable_nodes |-> lists.scrollable_nodes \o result.scrollable_nodes]

FutureDone(future, tree) ==
    /\ pc = "scan"
    /\ future \in batch
    /\ future \notin hung
    /\ LET app == future.app
           r == _get_nodes(WinOf(apps, app), tree)
           count == retry_counts[app] + 1
           retry == r.raised /\ ShouldRetry(count)
           new_future == [app |-> app, n |-> submitted[app] + 1]
           pending == (future_to_app \ {future})
                          \cup (IF retry THEN {new_future} ELSE {})
           lists == IF r.raised THEN nodes ELSE Extend(nodes, r.nodes)
       IN  /\ nodes' = lists
           /\ retry_counts' = IF r.raised THEN [retry_counts EXCEPT ![app] = count]
                              ELSE retry_counts
           /\ submitted' = IF retry THEN [submitted EXCEPT ![app] = @ + 1]
                           ELSE submitted
           /\ outcome' = [outcome EXCEPT ![app] =
                             IF ~r.raised
                             THEN [status |-> "ok", nodes |-> r.nodes, tree |-> tree]
                             ELSE IF retry THEN @
                             ELSE [status |-> "dropped", nodes |-> NoNodes,
                                   tree |-> NoTree]]
           /\ future_to_app' = pending
           /\ batch' = IF batch \ {future} /= {} THEN batch \ {future} ELSE pending
           /\ IF pending = {}
              THEN FinishScan(call, lists)
              ELSE UNCHANGED << pc, call, _cached_state, _last_scan_time, nstates,
                                ret, cached_tree_state, system_info >>
    /\ UNCHANGED << UIAUTOMATION_AVAILABLE, thread2, clock, windows, apps, hung, lastTool >>

(***************************************************************************)
(* A bridge call made by a traversal blocks for ever (the window's process *)
(* does not answer): the worker never finishes, the future never           *)
(* completes, and as_completed (line 143, no timeout) never yields it.     *)
(***************************************************************************)
FutureHangs(future) ==
    /\ pc = "scan"
    /\ future \in future_to_app \ hung
    /\ hung' = hung \cup {future}
    /\ UNCHANGED << UIAUTOMATION_AVAILABLE, thread2, clock, _cached_state, _last_scan_time,
                    cached_tree_state, nstates, pc, call, windows, apps,
                    retry_counts, future_to_app, batch, nodes, submitted, outcome,
                    ret, system_info, lastTool >>

(***************************************************************************)
(* A second thread calling get_state on the same Tree.  The threads meet   *)
(* only at _cached_state and _last_scan_time, read at lines 75-77 and      *)
(* written at lines 81-82, so the second thread's call is two steps: the   *)
(* test of line 75, and the end of its scan with the two writes.  Its scan *)
(* is the one in which the bridge serves the same tree to every attempt.   *)
(***************************************************************************)
RECURSIVE scan_all(_, _, _, _)
scan_all(selected, i, tree, lists) ==
    IF i > Len(selected) THEN lists
    ELSE LET r == _get_nodes(selected[i], tree)
         IN  scan_all(selected, i + 1, tree,
                      IF r.raised THEN lists ELSE Extend(lists, r.nodes))

\* lines 66-68
Thread2Unavailable(force) ==
    /\ thread2.pc = "idle"
    /\ ~UIAUTOMATION_AVAILABLE
    /\ nstates < MaxStates
    /\ nstates' = nstates + 1
    /\ thread2' = [thread2 EXCEPT !.ret = nstates + 1]
    /\ UNCHANGED << UIAUTOMATION_AVAILABLE, clock, _cached_state, _last_scan_time,
                    cached_tree_state, pc, call, scanVars, ret, system_info,
                    lastTool >>

\* lines 75-77
Thread2Hit(force) ==
    /\ thread2.pc = "idle"
    /\ UIAUTOMATION_AVAILABLE
    /\ CacheFresh(force, clock, _last_scan_time)
    /\ ~IsNone(_cached_state)
    /\ thread2' = [thread2 EXCEPT !.ret = _cached_state.id]
    /\ UNCHANGED << UIAUTOMATION_AVAILABLE, clock, _cached_state, _last_scan_time,
                    cached_tree_state, nstates, pc, call, scanVars, ret,
                    system_info, lastTool >>

\* lines 75-80: the test fails (or the attribute is missing) and _scan_tree starts
Thread2Scan(force) ==
    /\ thread2.pc = "idle"
    /\ UIAUTOMATION_AVAILABLE
    /\ ~(CacheFresh(force, clock, _last_scan_time) /\ ~IsNone(_cached_state))
    /\ nstates < MaxStates
    /\ thread2' = [thread2 EXCEPT
                      !.pc = "scan",
                      !.call = [force |-> force, tool |-> FALSE,
                                current_time |-> clock,
                                store |-> ~CacheFresh(force, clock, _last_scan_time)]]
    /\ UNCHANGED << UIAUTOMATION_AVAILABLE, clock, _cached_state, _last_scan_time,
                    cached_tree_state, nstates, pc, call, scanVars, ret,
                    system_info, lastTool >>

\* lines 80-90: _scan_tree returns, the slot and the timestamp are written;
\* lines 92-94 when enumerating the top-level windows raised
Thread2Finish(desktop, tree, raises) ==
    /\ thread2.pc = "scan"
    /\ LET lists == IF raises THEN NoNodes
                    ELSE scan_all(select_apps(desktop, 1, <<>>, FALSE), 1, tree,
                                  NoNodes)
           state == TreeState(nstates + 1, lists)
           store == thread2.call.store /\ ~raises
       IN  /\ nstates' = nstates + 1
           /\ _cached_state' = IF store THEN state ELSE _cached_state
           /\ _last_scan_time' = IF store THEN thread2.call.current_time
                                  ELSE _last_scan_time
           /\ thread2' = [pc |-> "idle", call |-> NoCall, ret |-> state.id]
    /\ UNCHANGED << UIAUTOMATION_AVAILABLE, clock, cached_tree_state, pc, call,
                    scanVars, ret, system_info, lastTool >>

(***************************************************************************)
(* The label tools of the server.                                          *)
(***************************************************************************)
\* line 707 / 746
InvalidLabelNoLowerBound(label, n) == label >= n
InvalidLabel(label, n) == label < 0 \/ label >= n

\* Python's list[label]: negative labels index from the end
PyInRange(list, label) == -Len(list) <= label /\ label < Len(list)
PyIndex(list, label) == IF label >= 0 THEN list[label + 1] ELSE list[Len(list) + label + 1]

\* lines 693-695 and 731-733: the snapshot the label tools look the label up in
SnapshotOfTree == _cached_state
Snapshot == cached_tree_state

\* target: the id of the snapshot the label was looked up in; element: the
\* element it resolved to; at: the time of the call
LabelTool(op, label) ==
    /\ pc = "idle"
    /\ lastTool' =
         IF IsNone(Snapshot)
         THEN [op |-> op, label |-> label, at |-> clock, result |-> "no cached state",
               target |-> None.id, element |-> <<>>,
               clicked |-> FALSE, typed |-> FALSE]
         ELSE IF InvalidLabel(label, Len(Snapshot.interactive_nodes))
         THEN [op |-> op, label |-> label, at |-> clock, result |-> "invalid label",
               target |-> Snapshot.id, element |-> <<>>,
               clicked |-> FALSE, typed |-> FALSE]
         ELSE IF ~PyInRange(Snapshot.interactive_nodes, label)
         THEN \* IndexError, caught at lines 725 / 781
              [op |-> op, label |-> label, at |-> clock, result |-> "error",
               target |-> Snapshot.id, element |-> <<>>,
               clicked |-> FALSE, typed |-> FALSE]
         ELSE LET element == PyIndex(Snapshot.interactive_nodes, label)
              IN  [op |-> op, label |-> label, at |-> clock, result |-> "done",
                   target |-> Snapshot.id,
                   element |-> << "interactive", element.app, element.path >>,
                   clicked |-> TRUE, typed |-> (op = "type_into_element")]
    /\ UNCHANGED << UIAUTOMATION_AVAILABLE, thread2, clock, _cached_state, _last_scan_time,
                    cached_tree_state, nstates, pc, call, scanVars, ret,
                    system_info >>

tool_click_element(label) == LabelTool("click_element", label)
tool_type_into_element(label) == LabelTool("type_into_element", label)

Labels == -1 .. MaxLabel

(***************************************************************************)
(* Specifications.                                                         *)
(*   Spec     : the whole program, on the desktops and trees of            *)
(*              SomeDesktops and SomeTrees                                 *)
(*   SpecScan : one get_state call on a new Tree, on every desktop of      *)
(*              Desktops with every tree of Trees served to every attempt  *)
(***************************************************************************)
SomeTrees == { TreeExample, TreeSmall, TreeNameRaises }
SomeDesktops == { DesktopB }

Next ==
    \/ Tick
    \/ \E force \in BOOLEAN, tool \in BOOLEAN :
          /\ tool => ~force
          /\ \/ GetStateUnavailable(force, tool)
             \/ GetStateHit(force, tool)
             \/ GetStateScanRaises(force, tool)
             \/ \E desktop \in SomeDesktops : GetStateScan(force, tool, desktop)
    \/ \E future \in batch, tree \in SomeTrees : FutureDone(future, tree)
    \/ \E future \in future_to_app : FutureHangs(future)
    \/ \E label \in Labels : tool_click_element(label)
    \/ \E label \in Labels : tool_type_into_element(label)

Spec == Init /\ [][Next]_vars

NextCache ==
    \/ Tick
    \/ \E force \in BOOLEAN, tool \in BOOLEAN :
          /\ tool => ~force
          /\ \/ GetStateUnavailable(force, tool)
             \/ GetStateHit(force, tool)
             \/ GetStateScanRaises(force, tool)
             \/ \E desktop \in SomeDesktops : GetStateScan(force, tool, desktop)
    \/ \E future \in batch, tree \in SomeTrees : FutureDone(future, tree)

SpecCache == Init /\ [][NextCache]_vars

NextTools ==
    \/ \/ GetStateUnavailable(FALSE, TRUE)
       \/ GetStateScanRaises(FALSE, TRUE)
       \/ \E desktop \in SomeDesktops : GetStateScan(FALSE, TRUE, desktop)
    \/ \E future \in batch, tree \in SomeTrees : FutureDone(future, tree)
    \/ \E label \in Labels : tool_click_element(label)
    \/ \E label \in Labels : tool_type_into_element(label)

SpecTools == Init /\ [][NextTools]_vars

\* the server's tools and get_state calls on the other Tree, at one time
NextServer ==
    \/ \E force \in BOOLEAN, tool \in BOOLEAN :
          /\ tool => ~force
          /\ \/ GetStateUnavailable(force, tool)
             \/ GetStateHit(force, tool)
             \/ GetStateScanRaises(force, tool)
             \/ \E desktop \in SomeDesktops : GetStateScan(force, tool, desktop)
    \/ \E future \in batch, tree \in SomeTrees : FutureDone(future, tree)
    \/ \E label \in Labels : tool_click_element(label)
    \/ \E label \in Labels : tool_type_into_element(label)

SpecServer == Init /\ [][NextServer]_vars

\* the server's tools while time passes
NextStale ==
    \/ Tick
    \/ \/ GetStateUnavailable(FALSE, TRUE)
       \/ GetStateScanRaises(FALSE, TRUE)
       \/ \E desktop \in SomeDesktops : GetStateScan(FALSE, TRUE, desktop)
    \/ \E future \in batch, tree \in SomeTrees : FutureDone(future, tree)
    \/ \E label \in Labels : tool_click_element(label)
    \/ \E label \in Labels : tool_type_into_element(label)

SpecStale == Init /\ [][NextStale]_vars

NextScan ==
    \/ /\ nstates = 0
       /\ \E force \in BOOLEAN, tool \in BOOLEAN :
             /\ tool => ~force
             /\ \/ GetStateUnavailable(force, tool)
                \/ GetStateScanRaises(force, tool)
                \/ \E desktop \in Desktops : GetStateScan(force, tool, desktop)
    \/ \E future \in batch, tree \in Trees : FutureDone(future, tree)

SpecScan == Init /\ [][NextScan]_vars

\* one call of tool_get_desktop_state on a desktop whose foreground window
\* (handle 4) holds many texts
NextTable ==
    \/ /\ nstates = 0
       /\ \/ GetStateUnavailable(FALSE, TRUE)
          \/ GetStateScanRaises(FALSE, TRUE)
          \/ \E desktop \in { DesktopB, DesktopD } : GetStateScan(FALSE, TRUE, desktop)
    \/ \E future \in batch :
          \E tree \in (IF future.app = 4 THEN WideTrees ELSE { TreeExample }) :
             FutureDone(future, tree)

SpecTable == Init /\ [][NextTable]_vars

\* two threads calling get_state on one Tree
NextThreads ==
    \/ Tick
    \/ \E force \in BOOLEAN :
          \/ GetStateUnavailable(force, FALSE)
          \/ GetStateHit(force, FALSE)
          \/ GetStateScanRaises(force, FALSE)
          \/ \E desktop \in SomeDesktops : GetStateScan(force, FALSE, desktop)
          \/ Thread2Unavailable(force)
          \/ Thread2Hit(force)
          \/ Thread2Scan(force)
    \/ \E future \in batch, tree \in SomeTrees : FutureDone(future, tree)
    \/ \E desktop \in SomeDesktops, tree \in SomeTrees, raises \in BOOLEAN :
          Thread2Finish(desktop, tree, raises)

SpecThreads == Init /\ [][NextThreads]_vars

\* one get_state call in which traversal calls may block for ever.  The pool
\* runs every submitted task, so a future whose call returns does complete.
NextHang ==
    \/ NextScan
    \/ \E future \in future_to_app : FutureHangs(future)

\* one get_state call in which every traversal call returns or raises: the
\* pool runs every submitted task, so every future completes
SpecLive ==
    /\ Init
    /\ [][NextScan]_vars
    /\ WF_vars(\E future \in batch, tree \in Trees : FutureDone(future, tree))

SpecHang ==
    /\ Init
    /\ [][NextHang]_vars
    /\ WF_vars(\E future \in batch, tree \in Trees : FutureDone(future, tree))

(***************************************************************************)
(* Helpers of the properties.                                              *)
(***************************************************************************)
Range(seq) == { seq[i] : i \in 1..Len(seq) }

\* the visits (window, path) recorded in a list of elements
Visits(seq) == { << e.app, e.path >> : e \in Range(seq) }

\* the control a path leads to, from node n of a tree
RECURSIVE NodeAt(_, _, _)
NodeAt(tree_nodes, n, path) ==
    IF path = <<>> THEN tree_nodes[n]
    ELSE NodeAt(tree_nodes, tree_nodes[n].children[Head(path)], Tail(path))

\* the control an element of the finished scan was made from
NodeOf(e) == NodeAt(outcome[e.app].tree.nodes, 1, e.path)

\* a get_state call returns in this step
Returns == ret'.flip /= ret.flip

\* the scan of the current get_state call has run to its end
ScanReturned == pc = "idle" /\ ret.scanned /\ ~ret.raised

(***************************************************************************)
(* C1.  In every TreeState a scan produces, with I interactive and S       *)
(* scrollable elements, the interactive table labels its rows 0..I-1 by    *)
(* position, the scrollable table labels its rows I..I+S-1, the labels of  *)
(* the two tables together are exactly 0..I+S-1 with none used twice, and  *)
(* the rows of the informative table carry no label.                       *)
(***************************************************************************)
C1_LabelsContiguous ==
    LET state == ret.state
        I == Len(state.interactive_nodes)
        S == Len(state.scrollable_nodes)
        irows == interactive_elements_to_string(state)
        srows == scrollable_elements_to_string(state)
        labels == [k \in 1..(I + S) |->
                      IF k <= I THEN irows[k].label ELSE srows[k - I].label]
    IN  /\ Len(irows) = I /\ Len(srows) = S
        /\ \A k \in 1..I : irows[k].label = k - 1
        /\ \A k \in 1..S : srows[k].label = I + k - 1
        /\ Range(labels) = 0 .. (I + S - 1)
        /\ \A a, b \in 1..(I + S) : a /= b => labels[a] /= labels[b]
        /\ \A row \in Range(informative_elements_to_string(state).rows) :
              "label" \notin DOMAIN row

C1_Witness ==
    /\ ScanReturned
    /\ Len(ret.state.interactive_nodes) >= 2
    /\ Len(ret.state.scrollable_nodes) >= 2
    /\ Len(ret.state.informative_nodes) >= 1

(***************************************************************************)
(* C4.  A window whose traversal fails on every attempt is attempted       *)
(* exactly 4 times, 1 initial task and 3 retries, before it is dropped.    *)
(* (The code drops it after 3 attempts.)                                   *)
(***************************************************************************)
C4_FourAttempts ==
    \A h \in DOMAIN outcome :
        outcome[h].status = "dropped" => submitted[h] = 1 + 3

(***************************************************************************)
(* C5.  When a scan has returned, a window whose traversal failed on every *)
(* attempt has no element in any of the three lists, the call returned a   *)
(* TreeState instead of raising, and every element a successful traversal  *)
(* returned is in the corresponding list of the returned TreeState.        *)
(***************************************************************************)
C5_FailedAppDropped ==
    (pc = "idle" /\ DOMAIN outcome /= {}) =>
        /\ ScanReturned
        /\ \A h \in DOMAIN outcome :
              /\ outcome[h].status \in {"ok", "dropped"}
              /\ outcome[h].status = "dropped" =>
                    \A e \in Range(ret.state.interactive_nodes)
                             \cup Range(ret.state.informative_nodes)
                             \cup Range(ret.state.scrollable_nodes) : e.app /= h
              /\ outcome[h].status = "ok" =>
                    /\ Range(outcome[h].nodes.interactive_nodes)
                          \subseteq Range(ret.state.interactive_nodes)
                    /\ Range(outcome[h].nodes.informative_nodes)
                          \subseteq Range(ret.state.informative_nodes)
                    /\ Range(outcome[h].nodes.scrollable_nodes)
                          \subseteq Range(ret.state.scrollable_nodes)

C5_Witness ==
    /\ ScanReturned
    /\ \E h \in DOMAIN outcome : outcome[h].status = "dropped"
    /\ \E h \in DOMAIN outcome :
          /\ outcome[h].status = "ok"
          /\ outcome[h].nodes.interactive_nodes /= <<>>
          /\ outcome[h].nodes.scrollable_nodes /= <<>>

(***************************************************************************)
(* C6.  No visit of a control is recorded twice in a produced TreeState:   *)
(* the visits of the three lists are pairwise disjoint and no list holds a *)
(* visit twice.                                                            *)
(***************************************************************************)
C6_MutuallyExclusive ==
    LET I == ret.state.interactive_nodes
        T == ret.state.informative_nodes
        S == ret.state.scrollable_nodes
    IN  /\ Visits(I) \cap Visits(T) = {}
        /\ Visits(I) \cap Visits(S) = {}
        /\ Visits(T) \cap Visits(S) = {}
        /\ Cardinality(Visits(I)) = Len(I)
        /\ Cardinality(Visits(T)) = Len(T)
        /\ Cardinality(Visits(S)) = Len(S)

\* a returned TreeState holds a scrollable element whose control also satisfies
\* the interactive predicate, and one whose control satisfies the informative one
C6_Witness ==
    /\ ScanReturned
    /\ \E e \in Range(ret.state.scrollable_nodes) : _is_element_interactive(NodeOf(e))
    /\ \E e \in Range(ret.state.scrollable_nodes) : _is_element_text(NodeOf(e))

(***************************************************************************)
(* C7.  Priority Scrollable > Interactive > Informative: in a returned     *)
(* TreeState no interactive or informative element was made from a control *)
(* that satisfies the scrollable predicate, and no informative element     *)
(* from a control that satisfies the interactive predicate.                *)
(***************************************************************************)
C7_Priority ==
    ScanReturned =>
        /\ \A e \in Range(ret.state.interactive_nodes) :
              ~_is_element_scrollable(NodeOf(e))
        /\ \A e \in Range(ret.state.informative_nodes) :
              /\ ~_is_element_scrollable(NodeOf(e))
              /\ ~_is_element_interactive(NodeOf(e))

\* a scrollable element whose control is also interactive, and an interactive
\* element whose control is also informative, in one returned TreeState
C7_Witness ==
    /\ ScanReturned
    /\ \E e \in Range(ret.state.scrollable_nodes) : _is_element_interactive(NodeOf(e))
    /\ \E e \in Range(ret.state.interactive_nodes) : _is_element_text(NodeOf(e))
    /\ \E e \in Range(ret.state.informative_nodes) : TRUE

(***************************************************************************)
(* C10.  Every interactive and every scrollable element of a produced      *)
(* TreeState has a bounding box of area greater than 0 and at least the    *)
(* minimum-area threshold.  (The code records a scrollable control with    *)
(* any non-empty box.)                                                     *)
(***************************************************************************)
C10_MinimumArea ==
    \A e \in Range(ret.state.interactive_nodes) \cup Range(ret.state.scrollable_nodes) :
        /\ e.bounding_box.width * e.bounding_box.height > 0
        /\ e.bounding_box.width * e.bounding_box.height >= MIN_ELEMENT_AREA

(***************************************************************************)
(* C2, as claimed.  When two scan(false) requests on the same scanner      *)
(* return one after the other, the second made less than 2 seconds after   *)
(* the first, the second returns the content the first returned and runs   *)
(* no scan.  (Stated here without the further demand that the second is    *)
(* served from the cache slot.)                                            *)
(***************************************************************************)
C2_TwoRequestsWithinWindow ==
    [][ ( /\ Returns
          /\ ~IsNone(ret.state)
          /\ ~ret.force /\ ~ret'.force
          /\ ~ret'.tool
          /\ ret'.current_time - ret.current_time < CacheWindow )
        => ( /\ Content(ret'.state) = Content(ret.state)
             /\ ~ret'.scanned ) ]_vars

(***************************************************************************)
(* C2, amended.  A scan(false) request on a scanner whose cache slot is    *)
(* filled, made less than 2 seconds after the start of the get_state call  *)
(* that filled the slot, returns the cached snapshot itself, runs no scan, *)
(* creates no TreeState and leaves the slot and its timestamp unchanged.   *)
(***************************************************************************)
C2_CacheHitWithinWindow ==
    [][ ( /\ Returns
          /\ ~ret'.force
          /\ ~ret'.tool
          /\ ~IsNone(_cached_state)
          /\ ret'.current_time - _last_scan_time < CacheWindow )
        => ( /\ ret'.state = _cached_state
             /\ ret'.hit
             /\ ~ret'.scanned
             /\ nstates' = nstates
             /\ _cached_state' = _cached_state
             /\ _last_scan_time' = _last_scan_time ) ]_vars

\* a request served from the cache one second after the cached scan started
C2_Witness ==
    /\ ret.hit
    /\ ~ret.force
    /\ ret.state = _cached_state
    /\ ret.current_time = _last_scan_time + 1

(***************************************************************************)
(* C3, as claimed.  scan(true), and a scan(false) made 2 seconds or more   *)
(* after the cached snapshot's creation, runs a full scan, replaces the    *)
(* cache slot and its timestamp with the new snapshot and does not return  *)
(* the snapshot that was cached.                                           *)
(***************************************************************************)
C3_AlwaysRescansAndReplaces ==
    [][ ( /\ Returns
          /\ ~ret'.tool
          /\ \/ ret'.force
             \/ /\ ~IsNone(_cached_state)
                /\ ret'.current_time - _last_scan_time >= CacheWindow )
        => ( /\ ret'.scanned
             /\ _cached_state' = ret'.state
             /\ _last_scan_time' = ret'.current_time
             /\ ret'.state.id /= _cached_state.id ) ]_vars

(***************************************************************************)
(* C3, amended.  With the accessibility bridge available, scan(true), and  *)
(* a scan(false) made 2 seconds or more after the start of the call that   *)
(* filled the cache slot, runs a scan and never returns the snapshot that  *)
(* was cached.  When the scan completes, the slot holds the new snapshot   *)
(* and the timestamp is the time the call started; when the scan raises,   *)
(* the call returns a new empty TreeState and leaves the slot and its      *)
(* timestamp as they were.                                                 *)
(***************************************************************************)
C3_RescanWhenForcedOrStale ==
    [][ ( /\ Returns
          /\ UIAUTOMATION_AVAILABLE
          /\ ~ret'.tool
          /\ \/ ret'.force
             \/ /\ ~IsNone(_cached_state)
                /\ ret'.current_time - _last_scan_time >= CacheWindow )
        => ( /\ ret'.scanned
             /\ ~ret'.hit
             /\ ret'.state.id /= _cached_state.id
             /\ IF ret'.raised
                THEN /\ Content(ret'.state) = Content(None)
                     /\ _cached_state' = _cached_state
                     /\ _last_scan_time' = _last_scan_time
                ELSE /\ _cached_state' = ret'.state
                     /\ _last_scan_time' = ret'.current_time ) ]_vars

\* a forced scan has replaced a snapshot that was still fresh
C3_Witness ==
    /\ ret.force
    /\ ret.scanned /\ ~ret.raised
    /\ ret.state.id >= 2
    /\ _cached_state = ret.state
    /\ _last_scan_time = ret.current_time
    /\ ret.current_time <= CacheWindow + 1

(***************************************************************************)
(* C8.  click_element and type_into_element, looking a label up in the     *)
(* current snapshot with I interactive elements, act exactly when          *)
(* 0 <= label < I, on the interactive element at that position; for every  *)
(* other label they return the 'Invalid label' result and neither click    *)
(* nor type.                                                               *)
(***************************************************************************)
C8_LabelRange ==
    ( /\ lastTool.op /= "none"
      /\ ~IsNone(cached_tree_state)
      /\ lastTool.target = cached_tree_state.id )
    => LET I == Len(cached_tree_state.interactive_nodes)
           label == lastTool.label
       IN  IF 0 <= label /\ label < I
           THEN /\ lastTool.result = "done"
                /\ lastTool.clicked
                /\ lastTool.element =
                      << "interactive",
                         cached_tree_state.interactive_nodes[label + 1].app,
                         cached_tree_state.interactive_nodes[label + 1].path >>
           ELSE /\ lastTool.result = "invalid label"
                /\ ~lastTool.clicked
                /\ ~lastTool.typed

\* label -1 was rejected on a snapshot that has interactive elements
C8_Witness ==
    /\ lastTool.op = "type_into_element"
    /\ lastTool.label = -1
    /\ lastTool.result = "invalid label"
    /\ lastTool.target = cached_tree_state.id
    /\ Len(cached_tree_state.interactive_nodes) >= 1

(***************************************************************************)
(* C9.  A label l with I <= l < I+S, looked up in a snapshot with I        *)
(* interactive and S scrollable elements, resolves to scrollable element   *)
(* l - I and is not rejected as out of range.  (The code rejects it.)      *)
(***************************************************************************)
C9_ResolvesScrollable ==
    ( /\ lastTool.op /= "none"
      /\ ~IsNone(cached_tree_state)
      /\ lastTool.target = cached_tree_state.id )
    => LET I == Len(cached_tree_state.interactive_nodes)
           S == Len(cached_tree_state.scrollable_nodes)
           label == lastTool.label
       IN  (I <= label /\ label < I + S) =>
              /\ lastTool.result /= "invalid label"
              /\ lastTool.element =
                    << "scrollable",
                       cached_tree_state.scrollable_nodes[label - I + 1].app,
                       cached_tree_state.scrollable_nodes[label - I + 1].path >>

(***************************************************************************)
(* C11.  The windows selected for scanning are, in enumeration order,      *)
(* every window whose class is in the always-include set, whatever its     *)
(* status and size, and at most one other window: the first in enumeration *)
(* order that is neither always-included nor avoid-listed and is visible   *)
(* (status not Minimized, area > 10).  No avoid-listed window is selected. *)
(***************************************************************************)
C11_Eligible(w) ==
    /\ w.ClassName \notin EXCLUDED_APPS
    /\ w.ClassName \notin AVOIDED_APPS
    /\ w.Status /= "Minimized"
    /\ ~isempty(w.BoundingRectangle)
    /\ width(w.BoundingRectangle) * height(w.BoundingRectangle) > 10

C12_BridgeUnavailable ==
    [][ ~UIAUTOMATION_AVAILABLE =>
          /\ pc' = "idle"
          /\ Returns =>
                /\ ~IsNone(ret'.state)
                /\ ret'.state.interactive_nodes = <<>>
                /\ ret'.state.informative_nodes = <<>>
                /\ ret'.state.scrollable_nodes = <<>>
                /\ ~ret'.raised /\ ~ret'.scanned /\ ~ret'.hit
                /\ ret'.tool => cached_tree_state' = ret'.state ]_vars

\* a forced request, made after an earlier one, was answered with an empty
\* TreeState while the bridge was unavailable
C12_Witness ==
    /\ ~UIAUTOMATION_AVAILABLE
    /\ ret.force
    /\ ret.state.id = 2
    /\ Content(ret.state) = Content(None)

(***************************************************************************)
(* C13.  A scan that has started completes and returns, even when one      *)
(* traversal call never returns.  (The code waits for every future without *)
(* a timeout, so the scan never returns.)                                  *)
(***************************************************************************)
C13_ScanCompletes == (pc = "scan") ~> (pc = "idle")

(***************************************************************************)
(* C14.  Every informative element of a produced TreeState has a non-empty *)
(* name, whatever the bridge answers for the control's name while it is    *)
(* classified and recorded.  (The code reads the name once in the          *)
(* predicate and again when it records the element.)                       *)
(***************************************************************************)
C14_InformativeNamed ==
    \A e \in Range(ret.state.informative_nodes) : e.name /= <<>>

(***************************************************************************)
(* C15.  The informative table of the answer of tool_get_desktop_state,    *)
(* built from a TreeState with N informative elements, has exactly         *)
(* min(N, 100) data rows, the rows of the first 100 elements in sequence   *)
(* order, and carries the note of N - 100 more elements if and only if     *)
(* N > 100.                                                                *)
(***************************************************************************)
C15_InformativeTable ==
    (system_info.state /= 0 /\ system_info.state = cached_tree_state.id) =>
        LET elements == cached_tree_state.informative_nodes
            N == Len(elements)
            table == system_info.informative
        IN  /\ Len(table.rows) = (IF N < 100 THEN N ELSE 100)
            /\ \A i \in 1..Len(table.rows) :
                  table.rows[i] = [app_name |-> elements[i].app_name,
                                   control_type |-> elements[i].control_type,
                                   name |-> IF elements[i].name = <<>>
                                            THEN << "'", "'" >>
                                            ELSE elements[i].name]
            /\ (table.note /= <<>>) <=> (N > 100)
            /\ N > 100 => table.note = << N - 100 >>

\* a snapshot with more than 101 informative elements from two windows was
\* rendered with 100 rows and a note
C15_Witness ==
    /\ system_info.state /= 0 /\ system_info.state = cached_tree_state.id
    /\ Len(cached_tree_state.informative_nodes) > 101
    /\ Len(system_info.informative.rows) = 100
    /\ system_info.informative.rows[100].name /= system_info.informative.rows[99].name
    /\ system_info.informative.note =
          << Len(cached_tree_state.informative_nodes) - 100 >>

(***************************************************************************)
(* C16.  Cache access is single-flight: of two threads calling get_state   *)
(* on one Tree, at most one runs a scan at any time.  (The code takes no   *)
(* lock: both threads pass the test of line 75 and both scan.)             *)
(***************************************************************************)
C16_SingleFlight == ~(pc = "scan" /\ thread2.pc = "scan")

(***************************************************************************)
(* C17.  The walk has a hard depth cap of 20: no element of a produced     *)
(* TreeState was made from a control deeper than 20 below its window, and  *)
(* the walk of a cyclic tree, or of one deeper than the cap, returns.      *)
(***************************************************************************)
C17_DepthCap ==
    /\ \A e \in Range(ret.state.interactive_nodes)
                 \cup Range(ret.state.informative_nodes)
                 \cup Range(ret.state.scrollable_nodes) : Len(e.path) <= 20
    /\ \A h \in DOMAIN outcome :
          outcome[h].tree \in { TreeCyclic, TreeDeep(MaxDepth + MaxExtraDepth) }
             => outcome[h].status = "ok"

\* the walks of the cyclic tree and of the deep chain have returned: the
\* control at depth 20 was recorded, and the control below it, which would
\* have been recorded too, was not
C17_Witness ==
    /\ ScanReturned
    /\ \E h \in DOMAIN outcome : outcome[h].tree = TreeCyclic
    /\ \E e \in Range(ret.state.informative_nodes) :
          /\ Len(e.path) = 20
          /\ outcome[e.app].tree = TreeDeep(MaxDepth + MaxExtraDepth)
          /\ _is_element_text(NodeAt(outcome[e.app].tree.nodes, 1,
                                     Append(e.path, 1)))

(***************************************************************************)
(* Trees the properties compare a walk with.                               *)
(***************************************************************************)
\* the tree in which every control whose children cannot be enumerated is a
\* leaf instead
AsLeaves(tree) ==
    [tree EXCEPT !.nodes =
        [n \in DOMAIN tree.nodes |->
            IF tree.nodes[n].fail = "GetChildren"
            THEN [tree.nodes[n] EXCEPT !.fail = "none", !.children = <<>>]
            ELSE tree.nodes[n]]]

\* a control that satisfies no predicate and has no children
Inert ==
    Stable("CustomControl", <<>>, <<>>, NoScroll, B_big, TRUE, FALSE, "none", <<>>)

\* the tree in which every control other than the root whose recording raises
\* is absent with its subtree
Pruned(tree) ==
    [tree EXCEPT !.nodes =
        [n \in DOMAIN tree.nodes |->
            IF n /= 1 /\ tree.nodes[n].fail = "record" THEN Inert
            ELSE tree.nodes[n]]]

\* the proper prefixes of a path
Ancestors(path) == { SubSeq(path, 1, k) : k \in 0..(Len(path) - 1) }

Elements(lists) ==
    Range(lists.interactive_nodes) \cup Range(lists.informative_nodes)
        \cup Range(lists.scrollable_nodes)

(***************************************************************************)
(* C18.  When enumerating the children of a control fails, the walk        *)
(* records no descendant of that control and is otherwise what it would be *)
(* if the control were a leaf: the control itself, the elements recorded   *)
(* before it and the siblings and ancestors' siblings visited after it are *)
(* all in the result, in the same order.                                   *)
(***************************************************************************)
C18_ChildEnumerationFails ==
    \A h \in DOMAIN outcome :
        outcome[h].status = "ok" =>
            /\ \A e \in Elements(outcome[h].nodes) :
                  \A p \in Ancestors(e.path) :
                     NodeAt(outcome[h].tree.nodes, 1, p).fail /= "GetChildren"
            /\ outcome[h].nodes =
                  _get_nodes(WinOf(apps, h), AsLeaves(outcome[h].tree)).nodes

\* the walk of the tree whose button cannot enumerate its children has
\* recorded the button, the text before it, the text after it and the text
\* after its parent
C18_Witness ==
    /\ ScanReturned
    /\ \E h \in DOMAIN outcome :
          /\ outcome[h].status = "ok"
          /\ outcome[h].tree = TreeNoChildren
          /\ Visits(outcome[h].nodes.interactive_nodes) = { << h, <<1, 2>> >> }
          /\ Visits(outcome[h].nodes.informative_nodes) =
                { << h, <<1>> >>, << h, <<1, 1>> >>, << h, <<1, 3>> >>, << h, <<2>> >> }

(***************************************************************************)
(* C19.  A bridge-call failure while one control other than the root is    *)
(* recorded abandons only that control's subtree: the result of the walk   *)
(* is the result of walking the tree without that control, so its later    *)
(* siblings are visited and classified.  (In the code the exception ends   *)
(* the parent's loop over its children.)                                   *)
(***************************************************************************)
C19_OnlySubtreeAbandoned ==
    \A h \in DOMAIN outcome :
        outcome[h].status = "ok" =>
            outcome[h].nodes =
                _get_nodes(WinOf(apps, h), Pruned(outcome[h].tree)).nodes

(***************************************************************************)
(* C20.  Aggregation neither loses nor duplicates elements: when a scan    *)
(* has returned, under every order of completion of the traversal tasks,   *)
(* each of the three sequences of the TreeState holds exactly the elements *)
(* returned by the successful traversals, one traversal per window that    *)
(* succeeded, each element as many times as its traversal returned it.     *)
(***************************************************************************)
C20_Part(seq, h) == SelectSeq(seq, LAMBDA e : e.app = h)

C20_Aggregation ==
    ScanReturned =>
        LET ok == { h \in DOMAIN outcome : outcome[h].status = "ok" }
        IN  /\ \A e \in Elements(ret.state) : e.app \in ok
            /\ \A h \in ok :
                  /\ C20_Part(ret.state.interactive_nodes, h)
                        = outcome[h].nodes.interactive_nodes
                  /\ C20_Part(ret.state.informative_nodes, h)
                        = outcome[h].nodes.informative_nodes
                  /\ C20_Part(ret.state.scrollable_nodes, h)
                        = outcome[h].nodes.scrollable_nodes

\* two windows succeeded, one of them after a failed attempt, and the
\* elements of the window submitted second were aggregated first
C20_Witness ==
    /\ ScanReturned
    /\ Len(apps) = 2
    /\ \A h \in DOMAIN outcome : outcome[h].status = "ok"
    /\ \E h \in DOMAIN outcome : retry_counts[h] >= 1
    /\ Len(ret.state.interactive_nodes) >= 2
    /\ ret.state.interactive_nodes[1].app = apps[2].handle
    /\ ret.state.interactive_nodes[Len(ret.state.interactive_nodes)].app
          = apps[1].handle

(***************************************************************************)
(* C21.  In each sequence of a returned TreeState the elements of one      *)
(* window form one block, and inside the block they are in the pre-order   *)
(* of the walk of that window's tree: a control before its descendants,    *)
(* the subtree of an earlier sibling before a later sibling.  The block is *)
(* the sequence the window's traversal returned, whatever the order in     *)
(* which the traversals completed.                                         *)
(***************************************************************************)
\* path p comes before path q in pre-order
C21_Before(p, q) ==
    \/ Len(p) < Len(q) /\ SubSeq(q, 1, Len(p)) = p
    \/ \E k \in 1..Len(p) :
          /\ k <= Len(q)
          /\ SubSeq(p, 1, k - 1) = SubSeq(q, 1, k - 1)
          /\ p[k] < q[k]

C21_Ordered(seq) ==
    /\ \A a, b \in 1..Len(seq) :
          (a < b /\ seq[a].app = seq[b].app) =>
              /\ C21_Before(seq[a].path, seq[b].path)
              /\ \A c \in a..b : seq[c].app = seq[a].app
    /\ \A h \in DOMAIN outcome :
          outcome[h].status = "ok" =>
              SelectSeq(seq, LAMBDA e : e.app = h)
                  \in { outcome[h].nodes.interactive_nodes,
                        outcome[h].nodes.informative_nodes,
                        outcome[h].nodes.scrollable_nodes }

C21_PreOrder ==
    ScanReturned =>
        /\ C21_Ordered(ret.state.interactive_nodes)
        /\ C21_Ordered(ret.state.informative_nodes)
        /\ C21_Ordered(ret.state.scrollable_nodes)

\* the window submitted second was aggregated first, and the block of the
\* other window holds a group, a text below it, a button without children,
\* the button's later sibling and the group's later sibling
C21_Witness ==
    /\ ScanReturned
    /\ Len(apps) = 2
    /\ Len(ret.state.informative_nodes) >= 5
    /\ ret.state.informative_nodes[1].app = apps[2].handle
    /\ outcome[apps[1].handle].tree = TreeNoChildren
    /\ outcome[apps[1].handle].status = "ok"
    /\ ret.state.informative_nodes[Len(ret.state.informative_nodes)].path = <<2>>
    /\ ret.state.informative_nodes[Len(ret.state.informative_nodes)].app
          = apps[1].handle

(***************************************************************************)
(* C22.  Provided every traversal attempt completes, with a result or a    *)
(* failure, the parallel scan terminates: no window is attempted more than *)
(* THREAD_MAX_RETRIES times, and a scan that has started reaches the point *)
(* where nothing is pending, every selected window has contributed its     *)
(* result or been dropped, and get_state has returned.                     *)
(***************************************************************************)
C22_Done ==
    /\ pc = "idle"
    /\ future_to_app = {}
    /\ ScanReturned
    /\ \A h \in Handles(apps) : outcome[h].status \in {"ok", "dropped"}

C22_ScanTerminates ==
    /\ [](\A h \in DOMAIN submitted : submitted[h] <= THREAD_MAX_RETRIES)
    /\ (pc = "scan") ~> C22_Done

\* a scan has ended in which one window was dropped after its last attempt
\* and the other succeeded at its last attempt
C22_Witness ==
    /\ C22_Done
    /\ \E h \in DOMAIN outcome :
          outcome[h].status = "dropped" /\ submitted[h] = THREAD_MAX_RETRIES
    /\ \E h \in DOMAIN outcome :
          outcome[h].status = "ok" /\ submitted[h] = THREAD_MAX_RETRIES

(***************************************************************************)
(* C23.  A TreeState is immutable once published.  Whatever step the       *)
(* program takes (a cache hit, a label tool, the building of the tables, a *)
(* later scan), every TreeState that is held before the step and still     *)
(* held after it has the same three sequences, and a scan that returns     *)
(* installs a TreeState that was not held before instead of changing one.  *)
(***************************************************************************)
\* the TreeState objects the program holds: the Tree's slot, the server's
\* global and the value last returned
C23_Held == { _cached_state, cached_tree_state, ret.state }

C23_Immutable ==
    [][ /\ \A x \in C23_Held, y \in C23_Held' :
              x.id = y.id => Content(x) = Content(y)
        /\ (Returns /\ ret'.scanned) =>
              \A x \in C23_Held : x.id /= ret'.state.id ]_vars

\* the snapshot a get_desktop_state call published has served a click and is
\* unchanged in the server's global after a later scan has put a different
\* snapshot in the Tree's slot
C23_Witness ==
    /\ cached_tree_state.id = 1
    /\ cached_tree_state.interactive_nodes /= <<>>
    /\ system_info.state = 1
    /\ system_info.summary[1] = Len(cached_tree_state.interactive_nodes)
    /\ lastTool.result = "done" /\ lastTool.target = 1
    /\ _cached_state.id = 2
    /\ ret.scanned /\ ret.state = _cached_state
    /\ Content(_cached_state) /= Content(cached_tree_state)

(***************************************************************************)
(* C24, as claimed.  Every get_desktop_state call runs a full tree scan,   *)
(* however recently the previous call ran, and is never served from the    *)
(* cache.                                                                  *)
(***************************************************************************)
C24_EveryCallScans ==
    [][ (Returns /\ ret'.tool) => (ret'.scanned /\ ~ret'.hit) ]_vars

(***************************************************************************)
(* C24, amended.  With the accessibility bridge available, every           *)
(* get_desktop_state call runs a scan on a Tree of its own, however        *)
(* recently the previous call ran and whatever the other Tree has cached:  *)
(* it is never served from a cache, and it publishes a TreeState that did  *)
(* not exist before the call.  With the bridge unavailable the call runs   *)
(* no scan and publishes a new empty TreeState.                            *)
(***************************************************************************)
C24_ScansWhenAvailable ==
    [][ (Returns /\ ret'.tool) =>
          /\ ~ret'.hit
          /\ ret'.scanned <=> UIAUTOMATION_AVAILABLE
          /\ ret'.state.id = nstates + 1
          /\ ret'.state.id \notin { _cached_state.id, cached_tree_state.id,
                                     ret.state.id }
          /\ cached_tree_state' = ret'.state
          /\ ~UIAUTOMATION_AVAILABLE => Content(ret'.state) = Content(None) ]_vars

\* a get_desktop_state call is scanning at the very time at which the
\* previous get_desktop_state call scanned and published its snapshot
C24_Witness ==
    /\ pc = "scan" /\ call.tool
    /\ ret.tool /\ ret.scanned /\ ~ret.raised
    /\ cached_tree_state = ret.state /\ ~IsNone(cached_tree_state)
    /\ _cached_state = None
    /\ call.current_time = ret.current_time

(***************************************************************************)
(* C25.  The timestamp stored with a cached snapshot is the clock value    *)
(* read at the start of the get_state call that produced it, before the    *)
(* scan ran: a scan(false) that follows a scan which itself took the       *)
(* length of the freshness window or longer is never served from the       *)
(* cache.                                                                  *)
(***************************************************************************)
C25_Slow(r) ==
    /\ r.scanned /\ ~r.raised /\ ~r.tool
    /\ r.returned - r.current_time >= CacheWindow

C25_StampedAtStart ==
    [][ /\ (Returns /\ ret'.scanned /\ ~ret'.raised /\ ~ret'.tool) =>
              /\ _cached_state' = ret'.state
              /\ _last_scan_time' = ret'.current_time
              /\ ret'.current_time = call.current_time
              /\ ret'.current_time <= clock
        /\ (pc = "idle" /\ pc' = "scan") => call'.current_time = clock
        /\ (Returns /\ ~ret'.tool /\ ~ret'.force /\ C25_Slow(ret)) => ~ret'.hit ]_vars

\* a scan took the whole freshness window, and the scan(false) issued when
\* it had returned has scanned again
C25_Witness ==
    /\ pc = "scan" /\ ~call.tool /\ ~call.force
    /\ C25_Slow(ret)
    /\ _cached_state = ret.state /\ ~IsNone(_cached_state)
    /\ _last_scan_time = ret.current_time
    /\ call.current_time = ret.returned

(***************************************************************************)
(* C26.  A get_state call whose scan raises, or that runs with the bridge  *)
(* unavailable, returns an empty TreeState and leaves the cache slot and   *)
(* its timestamp as they were: a following scan(false) inside the freshness*)
(* window of the snapshot in the slot still returns that snapshot.         *)
(***************************************************************************)
C26_FailureKeepsCache ==
    [][ /\ (Returns /\ ~ret'.tool /\ (ret'.raised \/ ~UIAUTOMATION_AVAILABLE)) =>
              /\ Content(ret'.state) = Content(None)
              /\ _cached_state' = _cached_state
              /\ _last_scan_time' = _last_scan_time
        /\ (/\ Returns /\ ~ret'.tool /\ ~ret'.force
            /\ ~ret.tool /\ (ret.raised \/ (~ret.scanned /\ ~ret.hit))
            /\ ~IsNone(_cached_state)
            /\ ret'.current_time - _last_scan_time < CacheWindow) =>
              /\ ret'.hit
              /\ ret'.state = _cached_state ]_vars

\* a forced scan has raised while a snapshot was in the slot, and the
\* scan(false) after it has returned that snapshot
C26_Witness ==
    /\ ret.hit /\ ~ret.tool /\ ~ret.force
    /\ ret.state = _cached_state
    /\ ret.state.id = 1 /\ ret.state.interactive_nodes /= <<>>
    /\ nstates = 2
    /\ cached_tree_state = None

(***************************************************************************)
(* C27.  click_element and type_into_element always resolve their label   *)
(* against the snapshot published by the most recent get_desktop_state     *)
(* call, however long ago it was published; when no get_desktop_state has  *)
(* completed they return the 'No cached desktop state' error and perform   *)
(* no mouse or keyboard action.                                            *)
(***************************************************************************)
C27_ResolvesAgainstPublished ==
    [][ lastTool' /= lastTool =>
          /\ lastTool'.target = system_info.state
          /\ lastTool'.at = clock
          /\ system_info.state = None.id <=> lastTool'.result = "no cached state"
          /\ lastTool'.result = "no cached state" =>
                ~lastTool'.clicked /\ ~lastTool'.typed
          /\ (/\ system_info.state /= None.id
              /\ lastTool'.label \in 0 .. system_info.summary[1] - 1) =>
                /\ lastTool'.result = "done" /\ lastTool'.clicked
                /\ \E state \in { cached_tree_state, ret.state } :
                      /\ state.id = system_info.state
                      /\ LET element == state.interactive_nodes[lastTool'.label + 1]
                         IN  lastTool'.element =
                                << "interactive", element.app, element.path >> ]_vars

\* a label is resolved against a snapshot published a whole freshness window
\* earlier
C27_Witness ==
    /\ lastTool.result = "done" /\ lastTool.clicked
    /\ lastTool.target = cached_tree_state.id
    /\ ret.tool /\ ret.state = cached_tree_state
    /\ lastTool.at - ret.returned >= CacheWindow
    /\ clock = lastTool.at

\* the label tools find no snapshot and do nothing
C27_WitnessNone ==
    /\ lastTool.result = "no cached state"
    /\ ~lastTool.clicked /\ ~lastTool.typed
    /\ cached_tree_state = None

(***************************************************************************)
(* C28.  A traversal attempt that fails leaves nothing in the aggregated   *)
(* sequences: at every moment of a scan, the elements of a window in the   *)
(* three sequences are those returned by the one attempt that succeeded    *)
(* (none while no attempt has succeeded, however many have failed), and no *)
(* element is in a sequence twice.                                         *)
(***************************************************************************)
C28_NoDup(seq) ==
    \A i, j \in 1..Len(seq) :
        i /= j => << seq[i].app, seq[i].path >> /= << seq[j].app, seq[j].path >>

C28_Returned(h) ==
    IF outcome[h].status = "ok"
    THEN _get_nodes(WinOf(apps, h), outcome[h].tree).nodes
    ELSE NoNodes

C28_OneAttempt ==
    (pc = "scan" \/ ScanReturned) =>
        /\ \A h \in DOMAIN outcome :
              /\ C20_Part(nodes.interactive_nodes, h)
                    = C28_Returned(h).interactive_nodes
              /\ C20_Part(nodes.informative_nodes, h)
                    = C28_Returned(h).informative_nodes
              /\ C20_Part(nodes.scrollable_nodes, h)
                    = C28_Returned(h).scrollable_nodes
              /\ outcome[h].status = "ok" => submitted[h] = retry_counts[h] + 1
        /\ C28_NoDup(nodes.interactive_nodes)
        /\ C28_NoDup(nodes.informative_nodes)
        /\ C28_NoDup(nodes.scrollable_nodes)
        /\ ScanReturned => Content(ret.state) = Content(TreeState(0, nodes))

\* a window's traversal succeeded at the last attempt allowed, after two
\* failures, and its elements are in the returned TreeState
C28_Witness ==
    /\ ScanReturned
    /\ \E h \in DOMAIN outcome :
          /\ outcome[h].status = "ok"
          /\ retry_counts[h] = THREAD_MAX_RETRIES - 1
          /\ submitted[h] = THREAD_MAX_RETRIES
          /\ C20_Part(ret.state.interactive_nodes, h) /= <<>>
          /\ C20_Part(ret.state.informative_nodes, h) /= <<>>

(***************************************************************************)
(* C29.  Every Interactive element of a produced TreeState has its enabled *)
(* flag recorded as true, whatever the bridge answers for the control's    *)
(* enabled state between the classification and the recording.             *)
(***************************************************************************)
C29_InteractiveEnabled ==
    ScanReturned => \A e \in Range(ret.state.interactive_nodes) : e.is_enabled

C30_SameAnswers(node) ==
    /\ node.BoundingRectangle[1] = node.BoundingRectangle[2]
    /\ node.IsEnabled[1] = node.IsEnabled[2]

====
